---- MODULE Spec2Model ----
(***************************************************************************)
(* Model of the iris inference pages: docs/app.js (multi-model version)    *)
(* and the earlier single-model app.js.                                    *)
(*                                                                         *)
(* JavaScript numbers are modelled as exact fractions <<n, d>> with d > 0  *)
(* in lowest terms; the three non-finite doubles are <<0,0>> (NaN),        *)
(* <<1,0>> (Infinity) and <<-1,0>> (-Infinity).  JavaScript arrays are     *)
(* sequences; the source's 0-based index i is element i+1.                 *)
(***************************************************************************)
EXTENDS Integers, Sequences, FiniteSets, TLC

VARIABLES
    treeNodes,  \* predictTree: the node list being traversed
    txs,        \* predictTree: the feature vector argument
    node,       \* predictTree: the local `node`
    path,       \* predictTree: the node indices read so far (history)
    tpc,        \* predictTree: "loop" | "returned" | "threw"
    tret,       \* predictTree: the returned class counts (<<>> until it returns)
    exportData, \* docs/app.js `exportData`: <<>> is null, <<d>> the loaded document d
    call,       \* the latest direct call of a predictor: arguments and outcome
    variant,    \* which app.js the page runs: "multi" (docs/app.js) | "single"
    model,      \* single-model app.js `model`: <<>> is null, <<m>> the loaded parameters
    fetching,   \* the load (loadModels / loadModel) has not resolved yet
    fields,     \* .value of sepal_length, sepal_width, petal_length, petal_width
    checks,     \* .checked of show_logistic, show_rf, show_svm, show_mlp, ensemble
    modelsOutput,     \* #models-output: the model blocks appended to it
    ensembleOutput,   \* #ensemble-output innerHTML: <<>> or one block
    ensembleShown,    \* #ensemble-output / #ensemble-title style.display = 'block'
    resultsMultiHidden, \* #results-multi .hidden
    resultHidden,     \* #result .hidden
    predImage,        \* #pred-image: [src, alt]
    prediction,       \* single: #prediction-text and #prediction-probs
    alertMsg,   \* the alert() raised by the latest event ("" when none)
    uncaught,   \* the exception that left the latest event's handler ("" when none)
    lastEvent,  \* the latest event: "none" | "load" | "type" | "checks" | "predict" | "clear" | "preset"
    clicked     \* the latest event ran the predict click handler

treeVars == <<treeNodes, txs, node, path, tpc, tret>>
inputVars == <<fields, checks>>
outputVars ==
    <<modelsOutput, ensembleOutput, ensembleShown, resultsMultiHidden, resultHidden,
      predImage, prediction>>
eventVars == <<alertMsg, uncaught, lastEvent, clicked>>
pageVars == <<variant, model, fetching, inputVars, outputVars, eventVars>>
vars == <<treeVars, exportData, call, pageVars>>

----------------------------------------------------------------------------
(* JavaScript number arithmetic *)

NaN == <<0, 0>>
Inf == <<1, 0>>
NegInf == <<-1, 0>>

Abs(n) == IF n < 0 THEN -n ELSE n
Sgn(n) == IF n < 0 THEN -1 ELSE IF n > 0 THEN 1 ELSE 0

RECURSIVE GCD(_, _)
GCD(a, b) == IF b = 0 THEN a ELSE GCD(b, a % b)

\* the double for the fraction n/d, d # 0
Frac(n, d) ==
    LET g == GCD(Abs(n), Abs(d))
        s == IF d < 0 THEN -1 ELSE 1
    IN  <<(s * n) \div g, (s * d) \div g>>

Num(n) == <<n, 1>>
IsNaN(a) == a = NaN
IsFinite(a) == a[2] # 0

\* a + b
Add(a, b) ==
    IF IsNaN(a) \/ IsNaN(b) THEN NaN
    ELSE IF ~IsFinite(a) /\ ~IsFinite(b) THEN (IF a = b THEN a ELSE NaN)
    ELSE IF ~IsFinite(a) THEN a
    ELSE IF ~IsFinite(b) THEN b
    ELSE LET g == GCD(a[2], b[2]) IN
         Frac(a[1] * (b[2] \div g) + b[1] * (a[2] \div g), (a[2] \div g) * b[2])

Neg(a) == <<-a[1], a[2]>>

\* a - b
Sub(a, b) == Add(a, Neg(b))

\* a * b
Mul(a, b) ==
    IF IsNaN(a) \/ IsNaN(b) THEN NaN
    ELSE IF ~IsFinite(a) \/ ~IsFinite(b)
         THEN (IF a[1] = 0 \/ b[1] = 0 THEN NaN ELSE <<Sgn(a[1]) * Sgn(b[1]), 0>>)
    ELSE LET g == GCD(Abs(a[1]), b[2])
             h == GCD(Abs(b[1]), a[2])
         IN  Frac((a[1] \div g) * (b[1] \div h), (a[2] \div h) * (b[2] \div g))

\* a / b
Div(a, b) ==
    IF IsNaN(a) \/ IsNaN(b) THEN NaN
    ELSE IF ~IsFinite(a) THEN (IF ~IsFinite(b) THEN NaN
                               ELSE <<a[1] * (IF b[1] < 0 THEN -1 ELSE 1), 0>>)
    ELSE IF ~IsFinite(b) THEN Num(0)
    ELSE IF b[1] = 0 THEN (IF a[1] = 0 THEN NaN ELSE <<Sgn(a[1]), 0>>)
    ELSE Mul(a, Frac(b[2], b[1]))

\* a <= b  (false when either side is NaN)
Leq(a, b) ==
    IF IsNaN(a) \/ IsNaN(b) THEN FALSE
    ELSE IF a = b THEN TRUE
    ELSE IF ~IsFinite(a) THEN a = NegInf
    ELSE IF ~IsFinite(b) THEN b = Inf
    ELSE LET g == GCD(a[2], b[2]) IN a[1] * (b[2] \div g) <= b[1] * (a[2] \div g)

\* arr[i] read as a number: an index outside the array reads undefined,
\* which a comparison or an addition converts to NaN
Get(arr, i) == IF i \in 0..(Len(arr) - 1) THEN arr[i + 1] ELSE NaN

SeqOf(n, v) == [i \in 1..n |-> v]

\* arr.reduce((a,b) => a+b, 0)
RECURSIVE SumFrom(_, _, _)
SumFrom(arr, i, acc) ==
    IF i > Len(arr) THEN acc ELSE SumFrom(arr, i + 1, Add(acc, arr[i]))
Sum(arr) == SumFrom(arr, 1, Num(0))

\* Math.max(...arr): -Infinity for no arguments, NaN when any argument is NaN
RECURSIVE MaxFrom(_, _, _)
MaxFrom(arr, i, acc) ==
    IF i > Len(arr) THEN acc
    ELSE IF IsNaN(acc) \/ IsNaN(arr[i]) THEN NaN
    ELSE MaxFrom(arr, i + 1, IF Leq(acc, arr[i]) THEN arr[i] ELSE acc)
MathMax(arr) == MaxFrom(arr, 1, NegInf)

\* arr.indexOf(v): the first index whose element is strictly equal to v,
\* -1 when there is none (NaN is equal to nothing, itself included)
IndexOf(arr, v) ==
    LET hits == { i \in 1..Len(arr) : arr[i] = v /\ ~IsNaN(v) } IN
    IF hits = {} THEN -1
    ELSE (CHOOSE i \in hits : \A j \in hits : i <= j) - 1

\* Math.exp.  The exponential has no exact fraction; it is modelled by a
\* function with the properties the code relies on: exp(0) = 1, positive,
\* strictly increasing, exp(-Infinity) = 0.
MathExp(q) ==
    IF IsNaN(q) THEN NaN
    ELSE IF q = NegInf THEN Num(0)
    ELSE IF q = Inf THEN Inf
    ELSE IF q[1] <= 0 THEN Div(Num(1), Sub(Num(1), q))
    ELSE Add(Num(1), q)

\* softmax(arr)
softmax(arr) ==
    LET max == MathMax(arr)
        exps == [i \in 1..Len(arr) |-> MathExp(Sub(arr[i], max))]
        sum == Sum(exps)
    IN  [i \in 1..Len(arr) |-> Div(exps[i], sum)]

----------------------------------------------------------------------------
(* predictTree, one loop iteration at a time *)

\* largest number of nodes of an enumerated tree
MaxNodes == 2

\* number of features of the vectors given to the tree traversal
NFeat == 2

\* predictTree with the tie sent to the right child (`<` for `<=`)
TreeIterStrict(tn, x, nd) ==
    IF nd \notin 0..(Len(tn) - 1)
    THEN [pc |-> "threw", node |-> nd, ret |-> <<>>]
    ELSE LET n == tn[nd + 1] IN
         IF n.left = -1 /\ n.right = -1
         THEN [pc |-> "returned", node |-> nd, ret |-> n.value]
         ELSE IF Leq(Get(x, n.feature), n.threshold) /\ Get(x, n.feature) # n.threshold
              THEN [pc |-> "loop", node |-> n.left, ret |-> <<>>]
              ELSE [pc |-> "loop", node |-> n.right, ret |-> <<>>]

\* one `while (true)` iteration of predictTree at index nd:
\* what the iteration does (pc) and the next value of `node` / the return value
TreeIter(tn, x, nd) ==
    IF nd \notin 0..(Len(tn) - 1)
    THEN [pc |-> "threw", node |-> nd, ret |-> <<>>]       \* n undefined: n.left throws
    ELSE LET n == tn[nd + 1] IN
         IF n.left = -1 /\ n.right = -1
         THEN [pc |-> "returned", node |-> nd, ret |-> n.value]
         ELSE IF Leq(Get(x, n.feature), n.threshold)
              THEN [pc |-> "loop", node |-> n.left, ret |-> <<>>]
              ELSE [pc |-> "loop", node |-> n.right, ret |-> <<>>]

\* the tree inputs: every node list of 1..MaxNodes nodes in which node i is a
\* leaf or tests feature i % NFeat against 0 with child indices anywhere in
\* -1..size-1 (so cycles and dangling children occur), plus the two-leaf tree
\* of the specification's scenario, a deeper tree and a tree that tests a
\* feature the vector does not have
LeafNode(i) ==
    [left |-> -1, right |-> -1, feature |-> -2, threshold |-> Num(-2),
     value |-> <<Num(i + 1), Num(5 - i)>>]

Internal(l, r, f) ==
    [left |-> l, right |-> r, feature |-> f, threshold |-> Num(0), value |-> <<>>]

NodesAt(i, k) ==
    {LeafNode(i)} \cup
    ({ Internal(l, r, i % NFeat) : l \in -1..(k - 1), r \in -1..(k - 1) }
       \ {Internal(-1, -1, i % NFeat)})

TreesOfSize(k) ==
    { t \in [1..k -> UNION { NodesAt(i, k) : i \in 0..(k - 1) }] :
        \A i \in 1..k : t[i] \in NodesAt(i - 1, k) }

ScenarioTree == << Internal(1, 2, 0), LeafNode(1), LeafNode(2) >>

DeepTree ==
    << Internal(1, 2, 0), Internal(3, 4, 1), LeafNode(2), LeafNode(3), LeafNode(4) >>

NoFeatureTree == << Internal(1, 2, NFeat), LeafNode(1), LeafNode(2) >>

Trees ==
    UNION { TreesOfSize(k) : k \in 1..MaxNodes }
    \cup {ScenarioTree, DeepTree, NoFeatureTree}

FeatureValues == {Num(-1), Num(0), Num(1)}
FeatureVectors == [1..NFeat -> FeatureValues]

\* the page as it is before any script has run
PageIdle ==
    /\ variant = "multi"
    /\ model = <<>>
    /\ fetching = FALSE
    /\ fields = <<"", "", "", "">>
    /\ checks = [show_logistic |-> TRUE, show_rf |-> TRUE, show_svm |-> TRUE,
                 show_mlp |-> TRUE, ensemble |-> TRUE]
    /\ modelsOutput = <<>>
    /\ ensembleOutput = <<>>
    /\ ensembleShown = FALSE
    /\ resultsMultiHidden = TRUE
    /\ resultHidden = TRUE
    /\ predImage = [src |-> "", alt |-> ""]
    /\ prediction = <<>>
    /\ alertMsg = ""
    /\ uncaught = ""
    /\ lastEvent = "none"
    /\ clicked = FALSE

InitTree ==
    /\ exportData = <<>>
    /\ call = [fn |-> "none"]
    /\ PageIdle
    /\ treeNodes \in Trees
    /\ txs \in FeatureVectors
    /\ node = 0
    /\ path = <<>>
    /\ tpc = "loop"
    /\ tret = <<>>

\* one iteration of the loop; the history `path` holds the nodes of the tree
\* read so far and stops growing once it is longer than the tree (an index
\* has then been read twice); the loop itself does not stop
PredictTreeStep ==
    /\ tpc = "loop"
    /\ LET it == TreeIter(treeNodes, txs, node) IN
        /\ tpc' = it.pc
        /\ node' = it.node
        /\ tret' = it.ret
        /\ path' = IF node \in 0..(Len(treeNodes) - 1) /\ Len(path) <= Len(treeNodes)
                   THEN Append(path, node) ELSE path
    /\ UNCHANGED <<treeNodes, txs, exportData, call, pageVars>>

NextTree == PredictTreeStep

SpecTree == InitTree /\ [][NextTree]_vars

IsLeaf(n) == n.left = -1 /\ n.right = -1
InTree(i) == i \in 0..(Len(treeNodes) - 1)
\* the child the traversal rule names at internal node i for the vector txs
RuleChild(i) ==
    LET n == treeNodes[i + 1] IN
    IF Leq(Get(txs, n.feature), n.threshold) THEN n.left ELSE n.right
TieAt(i) == Get(txs, treeNodes[i + 1].feature) = treeNodes[i + 1].threshold

\* C1: the traversal reads index 0 first; from every internal node it read
\* it went to the left child when xs[feature] <= threshold (ties included)
\* and to the right child otherwise; it returns at the first leaf it reads,
\* and what it returns is exactly that leaf's class counts.
C1_Traversal ==
    /\ (path # <<>> => path[1] = 0)
    /\ \A i \in 1..(Len(path) - 1) :
          /\ InTree(path[i])
          /\ ~IsLeaf(treeNodes[path[i] + 1])
          /\ path[i + 1] = RuleChild(path[i])
          /\ (TieAt(path[i]) => path[i + 1] = treeNodes[path[i] + 1].left)
    /\ (tpc = "loop" /\ path # <<>> /\ Len(path) <= Len(treeNodes)
          => node = RuleChild(path[Len(path)]))
    /\ (tpc = "returned"
          => /\ path # <<>>
             /\ node = path[Len(path)]
             /\ InTree(node)
             /\ IsLeaf(treeNodes[node + 1])
             /\ tret = treeNodes[node + 1].value)
    /\ (tpc # "returned" => tret = <<>>)

\* a traversal that took a tie to the left, then a right branch, and returned
C1_Witness ==
    /\ tpc = "returned"
    /\ Len(path) = 3
    /\ TieAt(path[1]) /\ path[2] = treeNodes[path[1] + 1].left
    /\ ~Leq(Get(txs, treeNodes[path[2] + 1].feature), treeNodes[path[2] + 1].threshold)
    /\ path[3] = treeNodes[path[2] + 1].right
    /\ tret = treeNodes[path[3] + 1].value

\* C2: a traversal reads at most as many nodes as the tree contains and
\* never reads an index a second time (it would have ended in MalformedTree).
C2_CycleGuard ==
    /\ Len(path) <= Len(treeNodes)
    /\ \A i, j \in 1..Len(path) : i # j => path[i] # path[j]

----------------------------------------------------------------------------
(* The predictors of docs/app.js.  A call's outcome is a record: kind is    *)
(* "return" (value is the returned array), "null" (the call returned null), *)
(* "throw" (a TypeError left the function) or "hang" (the call never        *)
(* returns); via names the predictor predictWithModel handed the call to.   *)

Return(v, who) == [kind |-> "return", value |-> v, via |-> who]
Null(who) == [kind |-> "null", value |-> <<>>, via |-> who]
Throw(who) == [kind |-> "throw", value |-> <<>>, via |-> who]
Hang(who) == [kind |-> "hang", value |-> <<>>, via |-> who]

\* v || 0 for a number (or undefined, read as NaN) v
OrZero(v) == IF IsNaN(v) \/ v = Num(0) THEN Num(0) ELSE v

\* for (i = 0; i < row.length; i++) s += row[i] * xs[i], from s = acc
RECURSIVE DotFrom(_, _, _, _)
DotFrom(row, x, i, acc) ==
    IF i > Len(row) THEN acc
    ELSE DotFrom(row, x, i + 1, Add(acc, Mul(row[i], Get(x, i - 1))))

\* the `scores` array scoreLinear hands to softmax: one entry per row of coef
linearScores(coef, intercept, x) ==
    [c \in 1..Len(coef) |-> DotFrom(coef[c], x, 1, OrZero(Get(intercept, c - 1)))]

scoreLinear(coef, intercept, x) == softmax(linearScores(coef, intercept, x))

\* predictTree run to its end: the loop of TreeIter from index 0.  The walk
\* is a function of the index alone, so once it has read more nodes than the
\* tree has without leaving the loop it is on a cycle and never returns.
RECURSIVE TreeRun(_, _, _, _)
TreeRun(tn, x, nd, fuel) ==
    LET it == TreeIter(tn, x, nd) IN
    IF it.pc = "returned" THEN Return(it.ret, "predictTree")
    ELSE IF it.pc = "threw" THEN Throw("predictTree")
    ELSE IF fuel = 0 THEN Hang("predictTree")
    ELSE TreeRun(tn, x, it.node, fuel - 1)

predictTree(tn, x) == TreeRun(tn, x, 0, Len(tn))

\* for (i = 0; i < counts.length; i++) agg[i] += counts[i]
\* (past the end of agg the sum is undefined + counts[i] = NaN and agg grows)
AddCounts(agg, counts) ==
    [i \in 1..(IF Len(agg) >= Len(counts) THEN Len(agg) ELSE Len(counts)) |->
        IF i > Len(counts) THEN agg[i] ELSE Add(Get(agg, i - 1), counts[i])]

\* rfModel.trees.forEach(...) from tree t on, with the counts summed so far
RECURSIVE ForEachTree(_, _, _, _)
ForEachTree(trees, x, t, agg) ==
    IF t > Len(trees) THEN Return(agg, "predictRF")
    ELSE LET r == predictTree(trees[t], x) IN
         IF r.kind # "return" THEN [r EXCEPT !.via = "predictRF"]
         ELSE ForEachTree(trees, x, t + 1, AddCounts(agg, r.value))

\* predictRF(rfModel, xs); nClassNames is exportData.class_names.length
predictRF(rfModel, x, nClassNames) ==
    LET nClasses == IF rfModel.n_classes # 0 THEN rfModel.n_classes ELSE nClassNames
        summed == ForEachTree(rfModel.trees, x, 1, SeqOf(nClasses, Num(0)))
    IN  IF summed.kind # "return" THEN summed
        ELSE LET agg == summed.value
                 total == Sum(agg)
             IN  Return([i \in 1..Len(agg) |-> Div(agg[i], total)], "predictRF")

\* Math.max(0, v)
ReLU(v) == IF IsNaN(v) THEN NaN ELSE IF Leq(Num(0), v) THEN v ELSE Num(0)

\* s = b[j]; for (i = 0; i < a.length; i++) s += a[i] * W[i][j]
RECURSIVE DenseFrom(_, _, _, _, _)
DenseFrom(W, a, j, i, acc) ==
    IF i > Len(a) THEN acc
    ELSE DenseFrom(W, a, j, i + 1, Add(acc, Mul(a[i], Get(W[i], j - 1))))

\* mlpPredict with ReLU applied after every layer, the last included
mlpLayerAllReLU(W, b, a, isLast) ==
    [j \in 1..Len(b) |-> ReLU(DenseFrom(W, a, j, 1, b[j]))]

\* one layer of mlpPredict: the affine map, then ReLU unless it is the last
mlpLayer(W, b, a, isLast) ==
    [j \in 1..Len(b) |->
        LET s == DenseFrom(W, a, j, 1, b[j]) IN IF isLast THEN s ELSE ReLU(s)]

\* the loop of mlpPredict from layer `layer` (1-based) with activation a:
\* the array handed to softmax, or a throw when a weight row or a bias is
\* missing (W[i] or b undefined)
RECURSIVE mlpForward(_, _, _)
mlpForward(mlpModel, a, layer) ==
    IF layer > Len(mlpModel.coefs) THEN Return(a, "mlpPredict")
    ELSE IF layer > Len(mlpModel.intercepts) THEN Throw("mlpPredict")
    ELSE IF Len(mlpModel.intercepts[layer]) > 0 /\ Len(a) > Len(mlpModel.coefs[layer])
         THEN Throw("mlpPredict")
    ELSE mlpForward(mlpModel,
                    mlpLayer(mlpModel.coefs[layer], mlpModel.intercepts[layer], a,
                             layer = Len(mlpModel.coefs)),
                    layer + 1)

mlpPredict(mlpModel, xs_raw) ==
    LET fwd == mlpForward(mlpModel, xs_raw, 1) IN
    IF fwd.kind # "return" THEN fwd ELSE Return(softmax(fwd.value), "mlpPredict")

\* predictWithModel without its `if (!model) return null`: model.type of an
\* absent entry is a TypeError
predictWithModelNoCheck(modelName, xs_scaled) ==
    LET models == exportData[1].models IN
    IF modelName \notin DOMAIN models THEN Throw("none")
    ELSE LET m == models[modelName] IN
         IF m.type = "linear"
         THEN Return(scoreLinear(m.coef, m.intercept, xs_scaled), "scoreLinear")
         ELSE IF m.type = "rf"
         THEN predictRF(m, xs_scaled, Len(exportData[1].class_names))
         ELSE IF m.type = "mlp"
         THEN mlpPredict(m, xs_scaled)
         ELSE Null("none")

\* predictWithModel(modelName, xs_scaled), for a loaded exportData
predictWithModel(modelName, xs_scaled) ==
    LET models == exportData[1].models IN
    IF modelName \notin DOMAIN models THEN Null("none")
    ELSE LET m == models[modelName] IN
         IF m.type = "linear"
         THEN Return(scoreLinear(m.coef, m.intercept, xs_scaled), "scoreLinear")
         ELSE IF m.type = "rf"
         THEN predictRF(m, xs_scaled, Len(exportData[1].class_names))
         ELSE IF m.type = "mlp"
         THEN mlpPredict(m, xs_scaled)
         ELSE Null("none")

\* the ensemble branch of the predict handler: summed, then avg
RECURSIVE SummedFrom(_, _, _)
SummedFrom(probList, k, summed) ==
    IF k > Len(probList) THEN summed
    ELSE SummedFrom(probList, k + 1, AddCounts(summed, probList[k]))

ensembleAverage(probList) ==
    LET n == Len(probList)
        summed == SummedFrom(probList, 1, SeqOf(Len(probList[1]), Num(0)))
    IN  [i \in 1..Len(summed) |-> Div(summed[i], Num(n))]

\* argmax with the last maximum winning (lastIndexOf for indexOf)
argmaxLast(probs) ==
    LET m == MathMax(probs)
        hits == { i \in 1..Len(probs) : probs[i] = m /\ ~IsNaN(m) }
    IN  IF hits = {} THEN -1 ELSE (CHOOSE i \in hits : \A j \in hits : i >= j) - 1

\* probs.indexOf(Math.max(...probs)), the winning index of every handler
argmax(probs) == IndexOf(probs, MathMax(probs))

----------------------------------------------------------------------------
(* The documents the page may be served as models.json *)

Z4 == <<Num(0), Num(0), Num(0), Num(0)>>

IrisTree1 ==
    << [left |-> 1, right |-> 2, feature |-> 2, threshold |-> Num(0), value |-> <<>>],
       [left |-> -1, right |-> -1, feature |-> -2, threshold |-> Num(-2),
        value |-> <<Num(5), Num(0), Num(0)>>],
       [left |-> 3, right |-> 4, feature |-> 3, threshold |-> Num(0), value |-> <<>>],
       [left |-> -1, right |-> -1, feature |-> -2, threshold |-> Num(-2),
        value |-> <<Num(0), Num(4), Num(1)>>],
       [left |-> -1, right |-> -1, feature |-> -2, threshold |-> Num(-2),
        value |-> <<Num(0), Num(1), Num(4)>>] >>

IrisTree2 ==
    << [left |-> 1, right |-> 2, feature |-> 3, threshold |-> Num(0), value |-> <<>>],
       [left |-> -1, right |-> -1, feature |-> -2, threshold |-> Num(-2),
        value |-> <<Num(2), Num(5), Num(0)>>],
       [left |-> -1, right |-> -1, feature |-> -2, threshold |-> Num(-2),
        value |-> <<Num(0), Num(3), Num(4)>>] >>

DocIris ==
    [ scaler_mean |-> <<Num(5), Num(3), Num(4), Num(1)>>,
      scaler_scale |-> <<Num(1), Num(1), Num(2), Num(1)>>,
      class_names |-> <<"setosa", "versicolor", "virginica">>,
      models |->
        [ logistic |->
            [ type |-> "linear",
              coef |-> << <<Num(0), Num(0), Num(0), Num(-1)>>,
                          Z4,
                          <<Num(0), Num(0), Num(0), Num(1)>> >>,
              intercept |-> <<Num(0), Num(0), Num(0)>> ],
          random_forest |->
            [ type |-> "rf", n_classes |-> 0, trees |-> <<IrisTree1, IrisTree2>> ],
          svm |->
            [ type |-> "linear",
              coef |-> << <<Num(0), Num(0), Num(-1), Num(0)>>,
                          <<Num(0), Num(0), Num(1), Num(0)>>,
                          <<Num(0), Num(0), Num(1), Num(0)>> >>,
              intercept |-> <<Num(0), Num(0), Num(0)>> ],
          mlp |->
            [ type |-> "mlp",
              coefs |-> << << <<Num(0), Num(0)>>, <<Num(0), Num(0)>>,
                              <<Num(1), Num(0)>>, <<Num(0), Num(-1)>> >>,
                           << <<Num(0), Num(1), Num(1)>>,
                              <<Num(1), Num(0), Num(0)>> >> >>,
              intercepts |-> << <<Num(0), Num(0)>>, <<Num(0), Num(0), Num(0)>> >> ] ] ]

\* a two-class export: one-row logistic model, a forest with no trees, an
\* entry of a type the page does not know, and no mlp entry
DocBinary ==
    [ scaler_mean |-> Z4,
      scaler_scale |-> <<Num(1), Num(1), Num(1), Num(1)>>,
      class_names |-> <<"other", "setosa">>,
      models |->
        [ logistic |->
            [ type |-> "linear",
              coef |-> << <<Num(1), Num(0), Num(0), Num(0)>> >>,
              intercept |-> <<Num(0)>> ],
          random_forest |-> [ type |-> "rf", n_classes |-> 0, trees |-> <<>> ],
          svm |-> [ type |-> "svc" ] ] ]

Documents == {DocIris, DocBinary}

----------------------------------------------------------------------------
(* The page: form fields, the load, and the click handlers *)

\* Number(v) of a field's text and the text a field shows for a number
\* assigned to its .value; the texts are those the presets and the
\* enumerated typing produce
NumberTable ==
    { <<"", Num(0)>>, <<"5.1", Frac(51, 10)>>, <<"3.5", Frac(7, 2)>>,
      <<"1.4", Frac(7, 5)>>, <<"0.2", Frac(1, 5)>>, <<"6", Num(6)>>,
      <<"2.9", Frac(29, 10)>>, <<"4.2", Frac(21, 5)>>, <<"1.3", Frac(13, 10)>>,
      <<"6.5", Frac(13, 2)>>, <<"3", Num(3)>>, <<"5.5", Frac(11, 2)>>,
      <<"2", Num(2)>>, <<"5", Num(5)>>, <<"4", Num(4)>>, <<"1", Num(1)>> }
NumberOf(text) == (CHOOSE e \in NumberTable : e[1] = text)[2]
StringOf(n) == (CHOOSE e \in NumberTable : e[1] # "" /\ e[2] = n)[1]

PRESETS ==
    [ setosa |-> <<Frac(51, 10), Frac(7, 2), Frac(7, 5), Frac(1, 5)>>,
      versicolor |-> <<Num(6), Frac(29, 10), Frac(21, 5), Frac(13, 10)>>,
      virginica |-> <<Frac(13, 2), Num(3), Frac(11, 2), Num(2)>> ]

imageNames == <<"images/setosa.jpg", "images/versicolor.jpg", "images/virginica.jpg">>

\* arr[i] shown as text: "undefined" outside the array
TextAt(arr, i) == IF i \in 0..(Len(arr) - 1) THEN arr[i + 1] ELSE "undefined"

\* the first k decimal digits of n/d after whole part q with remainder r,
\* by long division, the last one rounded half up
RECURSIVE Decimals(_, _, _, _)
Decimals(q, r, d, k) ==
    IF k = 0 THEN (IF 2 * r >= d THEN q + 1 ELSE q)
    ELSE Decimals(10 * q + (10 * r) \div d, (10 * r) % d, d, k - 1)

\* (p*100).toFixed(1): p as a percentage rounded to one decimal
PercentText(p) ==
    IF ~IsFinite(p) THEN p
    ELSE LET n == Abs(p[1]) IN
         Frac(Sgn(p[1]) * Decimals(n \div p[2], n % p[2], p[2], 3), 10)

\* features.map((v,i) => (Number(v) - mean[i]) / scale[i])
scaleFeatures(features, doc) ==
    [i \in 1..Len(features) |->
        Div(Sub(NumberOf(features[i]), Get(doc.scaler_mean, i - 1)),
            Get(doc.scaler_scale, i - 1))]

\* what a handler renders for one probability vector: the winning index,
\* its class name, the percentages; probs is the vector itself
Block(name, probs, class_names) ==
    [ name |-> name,
      idx |-> argmax(probs),
      className |-> TextAt(class_names, argmax(probs)),
      probs |-> probs,
      text |-> [i \in 1..Len(probs) |-> PercentText(probs[i])] ]

\* setReferenceImage(classIndex)
setReferenceImage(classIndex, class_names) ==
    [src |-> TextAt(imageNames, classIndex), alt |-> TextAt(class_names, classIndex)]

\* modelOrder: the checked models, in the handler's fixed order
modelOrder(c) ==
    (IF c.show_logistic THEN <<"logistic">> ELSE <<>>)
    \o (IF c.show_rf THEN <<"random_forest">> ELSE <<>>)
    \o (IF c.show_svm THEN <<"svm">> ELSE <<>>)
    \o (IF c.show_mlp THEN <<"mlp">> ELSE <<>>)

\* predictWithModel(name, xs) for every entry of modelOrder
Outcomes(order, x) == [k \in 1..Len(order) |-> predictWithModel(order[k], x)]

\* modelOrder.forEach(...) from entry k on, outs[k] being what
\* predictWithModel returns for entry k: the blocks appended and the vectors
\* collected; kind is "ok", or "throw" / "hang" when a predictor does not
\* return
RECURSIVE ForEachModel(_, _, _, _, _, _)
ForEachModel(order, outs, names, k, blocks, probList) ==
    IF k > Len(order) THEN [kind |-> "ok", blocks |-> blocks, probList |-> probList]
    ELSE IF outs[k].kind \in {"throw", "hang"}
         THEN [kind |-> outs[k].kind, blocks |-> blocks, probList |-> probList]
         ELSE IF outs[k].kind = "null"
         THEN ForEachModel(order, outs, names, k + 1, blocks, probList)
         ELSE ForEachModel(order, outs, names, k + 1,
                           Append(blocks, Block(order[k], outs[k].value, names)),
                           Append(probList, outs[k].value))

MultiAlert == "Models not loaded yet - wait a sec."
SingleAlert == "Model not loaded yet. Wait a second and retry."

\* the predict click handler of docs/app.js past its load guard, run on the
\* field texts f
MultiPredictLoaded(f) ==
    \* (\E over a singleton names a value that is computed once)
    \E outs \in {Outcomes(modelOrder(checks), scaleFeatures(f, exportData[1]))} :
    \E run \in {ForEachModel(modelOrder(checks), outs, exportData[1].class_names,
                              1, <<>>, <<>>)} :
         LET doc == exportData[1]
             probList == run.probList
         IN  /\ alertMsg' = ""
             /\ modelsOutput' = run.blocks
             /\ prediction' = prediction
             /\ IF run.kind # "ok"
                THEN /\ uncaught' = (IF run.kind = "throw" THEN "TypeError" ELSE "hang")
                     /\ UNCHANGED <<ensembleOutput, ensembleShown, resultsMultiHidden,
                                    resultHidden, predImage>>
                ELSE /\ uncaught' = ""
                     /\ IF checks.ensemble /\ Len(probList) > 0
                        THEN LET avg == Block("Ensemble (avg)", ensembleAverage(probList),
                                              doc.class_names)
                             IN  /\ ensembleShown' = TRUE
                                 /\ ensembleOutput' = <<avg>>
                                 /\ predImage' = setReferenceImage(avg.idx, doc.class_names)
                        ELSE /\ ensembleShown' = FALSE
                             /\ ensembleOutput' = ensembleOutput
                             /\ predImage' =
                                   IF Len(probList) > 0
                                   THEN setReferenceImage(argmax(probList[1]), doc.class_names)
                                   ELSE predImage
                     /\ resultsMultiHidden' = FALSE
                     /\ resultHidden' = FALSE

\* the handler with its load guard removed: the first read, of
\* exportData.scaler_mean on null, is a TypeError
MultiPredictHandlerNoGuard(f) ==
    IF exportData = <<>>
    THEN /\ alertMsg' = ""
         /\ uncaught' = "TypeError"
         /\ UNCHANGED outputVars
    ELSE MultiPredictLoaded(f)

\* the predict click handler of docs/app.js, run on the field texts f
MultiPredictHandler(f) ==
    IF exportData = <<>>
    THEN /\ alertMsg' = MultiAlert
         /\ uncaught' = ""
         /\ UNCHANGED outputVars
    ELSE MultiPredictLoaded(f)

\* predictFromFeatures(features) of the single-model app.js
predictFromFeatures(features) ==
    LET m == model[1]
        x == scaleFeatures(features, m)
        scores == [c \in 1..Len(m.coef) |-> DotFrom(m.coef[c], x, 1, Get(m.intercept, c - 1))]
        probs == softmax(scores)
        best == argmax(probs)
    IN  [classIndex |-> best, className |-> TextAt(m.class_names, best), probs |-> probs]

\* the predict click handler of the single-model app.js, on the field texts f
SinglePredictHandler(f) ==
    IF model = <<>>
    THEN /\ alertMsg' = SingleAlert
         /\ uncaught' = ""
         /\ UNCHANGED outputVars
    ELSE \E out \in {predictFromFeatures(f)} :
         LET names == model[1].class_names
         IN  /\ alertMsg' = ""
             /\ uncaught' = ""
             /\ prediction' =
                   << [ className |-> out.className,
                        classIndex |-> out.classIndex,
                        probs |-> out.probs,
                        text |-> [i \in 1..Len(names) |->
                                    <<names[i], PercentText(Get(out.probs, i - 1))>>] ] >>
             /\ predImage' = setReferenceImage(out.classIndex, names)
             /\ resultHidden' = FALSE
             /\ UNCHANGED <<modelsOutput, ensembleOutput, ensembleShown, resultsMultiHidden>>

\* the single-model parameter file
ParamsIris ==
    [ scaler_mean |-> <<Num(5), Num(3), Num(4), Num(1)>>,
      scaler_scale |-> <<Num(1), Num(1), Num(2), Num(1)>>,
      class_names |-> <<"setosa", "versicolor", "virginica">>,
      coef |-> << <<Num(0), Num(0), Num(-1), Num(0)>>,
                  <<Num(0), Num(0), Num(1), Num(0)>>,
                  <<Num(0), Num(0), Num(1), Num(0)>> >>,
      intercept |-> <<Num(0), Num(0), Num(0)>> ]
ParamsShifted == [ParamsIris EXCEPT !.intercept = <<Num(1), Num(0), Num(1)>>]
ParamFiles == {ParamsIris, ParamsShifted}

Blank == <<"", "", "", "">>
\* what the user types into the four fields between two clicks
TypedVectors == { <<"5", "3", "5", "1">> }
\* the checkbox settings the user leaves between two clicks
Checked(l, r, v, m, e) ==
    [show_logistic |-> l, show_rf |-> r, show_svm |-> v, show_mlp |-> m, ensemble |-> e]
CheckSettings ==
    { Checked(TRUE, TRUE, TRUE, TRUE, TRUE), Checked(TRUE, TRUE, TRUE, TRUE, FALSE),
      Checked(FALSE, FALSE, TRUE, FALSE, TRUE), Checked(FALSE, FALSE, FALSE, FALSE, TRUE) }
PresetNames == {"setosa", "versicolor", "virginica"}

Init ==
    /\ variant \in {"multi", "single"}
    /\ exportData = <<>>
    /\ model = <<>>
    /\ fetching = TRUE
    /\ fields = Blank
    /\ checks = [show_logistic |-> TRUE, show_rf |-> TRUE, show_svm |-> TRUE,
                 show_mlp |-> TRUE, ensemble |-> TRUE]
    /\ modelsOutput = <<>>
    /\ ensembleOutput = <<>>
    /\ ensembleShown = FALSE
    /\ resultsMultiHidden = TRUE
    /\ resultHidden = TRUE
    /\ predImage = [src |-> "", alt |-> ""]
    /\ prediction = <<>>
    /\ alertMsg = ""
    /\ uncaught = ""
    /\ lastEvent = "none"
    /\ clicked = FALSE
    /\ call = [fn |-> "none"]
    /\ treeNodes = <<>> /\ txs = <<>> /\ node = 0 /\ path = <<>>
    /\ tpc = "returned" /\ tret = <<>>

Quiet(ev) ==
    /\ lastEvent' = ev
    /\ clicked' = FALSE
    /\ alertMsg' = ""
    /\ uncaught' = ""

\* LoadModelsResolves with no regard for the load having resolved already
LoadModelsResolvesAgain ==
    /\ variant = "multi"
    /\ fetching' = FALSE
    /\ \E d \in Documents : exportData' = <<d>>
    /\ Quiet("load")
    /\ UNCHANGED <<treeVars, call, variant, model, inputVars, outputVars>>

\* loadModels() resumes after its awaits: exportData = await r.json()
LoadModelsResolves ==
    /\ variant = "multi"
    /\ fetching
    /\ fetching' = FALSE
    /\ \E d \in Documents : exportData' = <<d>>
    /\ Quiet("load")
    /\ UNCHANGED <<treeVars, call, variant, model, inputVars, outputVars>>

\* loadModel() resumes after its awaits: model = await r.json()
LoadModelResolves ==
    /\ variant = "single"
    /\ fetching
    /\ fetching' = FALSE
    /\ \E m \in ParamFiles : model' = <<m>>
    /\ Quiet("load")
    /\ UNCHANGED <<treeVars, call, variant, exportData, inputVars, outputVars>>

\* the fetch (or the parse) rejects: the variable is never assigned
LoadRejects ==
    /\ fetching
    /\ fetching' = FALSE
    /\ lastEvent' = "load"
    /\ clicked' = FALSE
    /\ alertMsg' = ""
    /\ uncaught' = "unhandledrejection"
    /\ UNCHANGED <<treeVars, call, variant, exportData, model, inputVars, outputVars>>

\* the user edits the fields; no script listens
TypeFeatures ==
    /\ \E v \in TypedVectors : fields' = v
    /\ Quiet("type")
    /\ UNCHANGED <<treeVars, call, variant, exportData, model, fetching, checks, outputVars>>

\* the user sets the checkboxes; no script listens
SetChecks ==
    /\ variant = "multi"
    /\ \E c \in CheckSettings : checks' = c
    /\ Quiet("checks")
    /\ UNCHANGED <<treeVars, call, variant, exportData, model, fetching, fields, outputVars>>

MultiPredictClick ==
    /\ variant = "multi"
    /\ MultiPredictHandler(fields)
    /\ lastEvent' = "predict"
    /\ clicked' = TRUE
    /\ UNCHANGED <<treeVars, call, variant, exportData, model, fetching, inputVars>>

SinglePredictClick ==
    /\ variant = "single"
    /\ SinglePredictHandler(fields)
    /\ lastEvent' = "predict"
    /\ clicked' = TRUE
    /\ UNCHANGED <<treeVars, call, variant, exportData, model, fetching, inputVars>>

MultiClearClick ==
    /\ variant = "multi"
    /\ fields' = Blank
    /\ modelsOutput' = <<>>
    /\ resultsMultiHidden' = TRUE
    /\ resultHidden' = TRUE
    /\ Quiet("clear")
    /\ UNCHANGED <<treeVars, call, variant, exportData, model, fetching, checks,
                   ensembleOutput, ensembleShown, predImage, prediction>>

SingleClearClick ==
    /\ variant = "single"
    /\ fields' = Blank
    /\ resultHidden' = TRUE
    /\ Quiet("clear")
    /\ UNCHANGED <<treeVars, call, variant, exportData, model, fetching, checks,
                   modelsOutput, ensembleOutput, ensembleShown, resultsMultiHidden,
                   predImage, prediction>>

\* a preset button: fill the fields, then predict.click()
MultiPresetClick ==
    /\ variant = "multi"
    /\ \E name \in PresetNames :
          /\ fields' = [i \in 1..4 |-> StringOf(PRESETS[name][i])]
          /\ MultiPredictHandler([i \in 1..4 |-> StringOf(PRESETS[name][i])])
    /\ lastEvent' = "preset"
    /\ clicked' = TRUE
    /\ UNCHANGED <<treeVars, call, variant, exportData, model, fetching, checks>>

\* a preset button: applyPreset(name, true)
SinglePresetClick ==
    /\ variant = "single"
    /\ \E name \in PresetNames :
          /\ fields' = [i \in 1..4 |-> StringOf(PRESETS[name][i])]
          /\ SinglePredictHandler([i \in 1..4 |-> StringOf(PRESETS[name][i])])
    /\ lastEvent' = "preset"
    /\ clicked' = TRUE
    /\ UNCHANGED <<treeVars, call, variant, exportData, model, fetching, checks>>

Next ==
    \/ LoadModelsResolves
    \/ LoadModelResolves
    \/ LoadRejects
    \/ TypeFeatures
    \/ SetChecks
    \/ MultiPredictClick
    \/ SinglePredictClick
    \/ MultiClearClick
    \/ SingleClearClick
    \/ MultiPresetClick
    \/ SinglePresetClick

Spec == Init /\ [][Next]_vars

----------------------------------------------------------------------------
(* Direct calls of the predictors over enumerated arguments: one call per  *)
(* behaviour, made on a page whose document has loaded                     *)

\* most rows of a coefficient matrix
MaxRows == 2
\* most trees of a forest
MaxTrees == 2
\* most layers of a network
MaxLayers == 2
\* most probability vectors averaged at once
MaxVectors == 2

SeqsUpTo(S, n) == UNION { [1..k -> S] : k \in 1..n }

CoefRows == [1..NFeat -> {Num(0), Num(1)}]
Coefs == SeqsUpTo(CoefRows, MaxRows)
\* intercepts for R rows: all zero, 1..R, and an array one entry short
Intercepts(R) == { SeqOf(R, Num(0)), [c \in 1..R |-> Num(c)], [c \in 1..(R - 1) |-> Num(c)] }

CycleTree == << Internal(1, 1, 0), Internal(0, 0, 1) >>
DanglingTree == << Internal(1, -1, 0), LeafNode(1) >>
ZeroTree ==
    << [left |-> -1, right |-> -1, feature |-> -2, threshold |-> Num(-2),
        value |-> <<Num(0), Num(0)>>] >>
WideTree ==
    << [left |-> -1, right |-> -1, feature |-> -2, threshold |-> Num(-2),
        value |-> <<Num(1), Num(2), Num(3), Num(4)>>] >>
TreePool == {ScenarioTree, DeepTree, ZeroTree, WideTree, CycleTree, DanglingTree}
Forests ==
    { [type |-> "rf", n_classes |-> k, trees |-> ts] :
        k \in {0, 2}, ts \in {<<>>} \cup SeqsUpTo(TreePool, MaxTrees) }

\* layer shapes: NFeat inputs, NFeat units in every layer
WeightPool ==
    { [i \in 1..NFeat |-> [j \in 1..NFeat |-> IF i = j THEN Num(1) ELSE Num(0)]],
      [i \in 1..NFeat |-> [j \in 1..NFeat |-> IF j = 1 THEN Num(1) ELSE Num(-1)]],
      [i \in 1..NFeat |-> [j \in 1..NFeat |-> Num(-1)]] }
BiasPool == { SeqOf(NFeat, Num(0)), [j \in 1..NFeat |-> Num(j - 2)] }
Networks ==
    { [type |-> "mlp", coefs |-> ws, intercepts |-> bs] :
        ws \in SeqsUpTo(WeightPool, MaxLayers), bs \in SeqsUpTo(BiasPool, MaxLayers) }

VectorPool ==
    { <<Frac(1, 2), Frac(1, 2)>>, <<Num(1), Num(0)>>, <<Frac(1, 5), Frac(4, 5)>>,
      <<Num(1)>>, <<Frac(1, 5), Frac(2, 5), Frac(2, 5)>> }

ModelNames == {"logistic", "random_forest", "svm", "mlp"}
\* identifiers asked of predictWithModel: the four the page uses and one
\* that no document has
AskedNames == ModelNames \cup {"knn"}
ScaledVectors ==
    { Z4, <<Num(1), Num(0), Num(-1), Num(-1)>>, <<Num(-1), Num(1), Num(1), Num(1)>>,
      <<Num(0), Num(-1), Frac(1, 2), Num(0)>> }

InitCore ==
    /\ exportData \in { <<d>> : d \in Documents }
    /\ call = [fn |-> "none"]
    /\ treeNodes = <<>> /\ txs = <<>> /\ node = 0 /\ path = <<>>
    /\ tpc = "returned" /\ tret = <<>>
    /\ PageIdle

CallScoreLinear ==
    /\ call.fn = "none"
    /\ \E coef \in Coefs : \E intercept \in Intercepts(Len(coef)) : \E x \in FeatureVectors :
          call' = [fn |-> "scoreLinear", coef |-> coef, intercept |-> intercept, xs |-> x,
                   scores |-> linearScores(coef, intercept, x),
                   out |-> Return(scoreLinear(coef, intercept, x), "scoreLinear")]
    /\ UNCHANGED <<treeVars, exportData, pageVars>>

CallPredictRF ==
    /\ call.fn = "none"
    /\ \E rfModel \in Forests : \E x \in FeatureVectors :
          call' = [fn |-> "predictRF", rfModel |-> rfModel, xs |-> x,
                   out |-> predictRF(rfModel, x, Len(exportData[1].class_names))]
    /\ UNCHANGED <<treeVars, exportData, pageVars>>

CallMlpPredict ==
    /\ call.fn = "none"
    /\ \E mlpModel \in Networks : \E x \in FeatureVectors :
          call' = [fn |-> "mlpPredict", mlpModel |-> mlpModel, xs |-> x,
                   toSoftmax |-> mlpForward(mlpModel, x, 1),
                   out |-> mlpPredict(mlpModel, x)]
    /\ UNCHANGED <<treeVars, exportData, pageVars>>

CallPredictWithModel ==
    /\ call.fn = "none"
    /\ \E modelName \in AskedNames : \E x \in ScaledVectors :
          call' = [fn |-> "predictWithModel", modelName |-> modelName, xs |-> x,
                   out |-> predictWithModel(modelName, x)]
    /\ UNCHANGED <<treeVars, exportData, pageVars>>

CallEnsembleAverage ==
    /\ call.fn = "none"
    /\ \E probList \in SeqsUpTo(VectorPool, MaxVectors) :
          call' = [fn |-> "ensembleAverage", probList |-> probList,
                   out |-> Return(ensembleAverage(probList), "ensembleAverage")]
    /\ UNCHANGED <<treeVars, exportData, pageVars>>

NextCore ==
    \/ CallScoreLinear
    \/ CallPredictRF
    \/ CallMlpPredict
    \/ CallPredictWithModel
    \/ CallEnsembleAverage

SpecCore == InitCore /\ [][NextCore]_vars

\* sum over i of row[i] * x[i]
Dot(row, x) == Sum([i \in 1..Len(row) |-> Mul(row[i], Get(x, i - 1))])

\* C3: for a one-row coefficient matrix the scorer's score vector is
\* [score, -score] with score = intercept[0] + dot(coef[0], xs), and the
\* returned vector has two entries; for more rows there is one score per row.
C3_BinaryEncoding ==
    call.fn = "scoreLinear" =>
        IF Len(call.coef) = 1
        THEN /\ Len(call.scores) = 2
             /\ call.scores[1] = Add(OrZero(Get(call.intercept, 0)), Dot(call.coef[1], call.xs))
             /\ call.scores[2] = Neg(call.scores[1])
             /\ Len(call.out.value) = 2
        ELSE /\ Len(call.scores) = Len(call.coef)
             /\ Len(call.out.value) = Len(call.coef)

LeafCounts(c) ==
    [t \in 1..Len(c.rfModel.trees) |-> predictTree(c.rfModel.trees[t], c.xs).value]
SummedOverTotal(c) ==
    LET leaves == LeafCounts(c)
        sums == [i \in 1..Len(c.out.value) |->
                   Sum([t \in 1..Len(leaves) |-> Get(leaves[t], i - 1)])]
    IN  [i \in 1..Len(sums) |-> Div(sums[i], Sum(sums))]

\* C5: a forest with no trees fails with EmptyEnsemble and returns no vector;
\* a forest with trees (each leaf holding one count per class) returns the
\* summed leaf counts over their grand total.
C5_EmptyEnsemble ==
    call.fn = "predictRF" =>
        IF call.rfModel.trees = <<>>
        THEN call.out.kind = "EmptyEnsemble" /\ call.out.value = <<>>
        ELSE (/\ call.out.kind = "return"
              /\ \A t \in 1..Len(call.rfModel.trees) :
                    Len(LeafCounts(call)[t]) =
                      (IF call.rfModel.n_classes # 0 THEN call.rfModel.n_classes
                       ELSE Len(exportData[1].class_names)))
               => call.out.value = SummedOverTotal(call)

\* the values entering layer l + 1: xs for l = 0, otherwise the clamped
\* affine image of the values entering layer l
RECURSIVE HiddenAt(_, _, _)
HiddenAt(m, x, l) ==
    IF l = 0 THEN x
    ELSE LET a == HiddenAt(m, x, l - 1)
             W == m.coefs[l]
             b == m.intercepts[l]
         IN  [j \in 1..Len(b) |->
                LET s == Add(b[j], Sum([i \in 1..Len(a) |-> Mul(a[i], W[i][j])]))
                IN  IF Leq(s, Num(0)) THEN Num(0) ELSE s]

\* the raw affine image of a under layer l
RawAt(m, a, l) ==
    [j \in 1..Len(m.intercepts[l]) |->
        Add(m.intercepts[l][j], Sum([i \in 1..Len(a) |-> Mul(a[i], m.coefs[l][i][j])]))]

\* C6: every layer below the last has its negative outputs replaced by 0
\* before they feed the next layer; the last layer's output goes to softmax
\* unclamped; with one layer softmax gets bias[j] + sum_i xs[i]*weights[i][j].
C6_ForwardPass ==
    (call.fn = "mlpPredict" /\ call.toSoftmax.kind = "return") =>
        LET m == call.mlpModel
            L == Len(m.coefs)
        IN  /\ call.toSoftmax.value = RawAt(m, HiddenAt(m, call.xs, L - 1), L)
            /\ (L = 1 => call.toSoftmax.value = RawAt(m, call.xs, 1))
            /\ call.out.kind = "return"
            /\ call.out.value = softmax(call.toSoftmax.value)

\* a two-layer pass in which a hidden output was clamped and a negative
\* last-layer output reached softmax as it was
C6_Witness ==
    /\ call.fn = "mlpPredict"
    /\ call.toSoftmax.kind = "return"
    /\ Len(call.mlpModel.coefs) = 2
    /\ \E j \in 1..NFeat :
          /\ ~Leq(Num(0), RawAt(call.mlpModel, call.xs, 1)[j])
          /\ HiddenAt(call.mlpModel, call.xs, 1)[j] = Num(0)
    /\ \E j \in 1..Len(call.toSoftmax.value) : ~Leq(Num(0), call.toSoftmax.value[j])

\* C7: averaging vectors of which one differs in length from the first fails
\* with InconsistentClassCount and yields no vector; equal lengths yield the
\* elementwise sum divided by the number of vectors.
C7_InconsistentClassCount ==
    call.fn = "ensembleAverage" =>
        LET ps == call.probList IN
        IF \E k \in 1..Len(ps) : Len(ps[k]) # Len(ps[1])
        THEN call.out.kind = "InconsistentClassCount" /\ call.out.value = <<>>
        ELSE call.out.value =
               [i \in 1..Len(ps[1]) |->
                  Div(Sum([k \in 1..Len(ps) |-> ps[k][i]]), Num(Len(ps)))]

----------------------------------------------------------------------------
(* The page's claims *)

\* idx is the lowest index of probs that holds its greatest entry
LowestMax(probs, idx) ==
    /\ idx \in 0..(Len(probs) - 1)
    /\ \A j \in 1..Len(probs) : Leq(probs[j], probs[idx + 1])
    /\ \A j \in 1..idx : probs[j] # probs[idx + 1]

\* a non-empty vector of numbers
Proper(probs) == Len(probs) > 0 /\ \A j \in 1..Len(probs) : ~IsNaN(probs[j])

\* C8: the winning index shown for every model's vector, for the ensemble
\* average and by the single-model page is the lowest index holding the
\* vector's maximum, whenever the vector is non-empty and holds numbers; and
\* for [0.2, 0.5, 0.5] it is 1.
C8_LowestIndex ==
    /\ \A k \in 1..Len(modelsOutput) :
          Proper(modelsOutput[k].probs) => LowestMax(modelsOutput[k].probs, modelsOutput[k].idx)
    /\ \A k \in 1..Len(ensembleOutput) :
          Proper(ensembleOutput[k].probs)
             => LowestMax(ensembleOutput[k].probs, ensembleOutput[k].idx)
    /\ \A k \in 1..Len(prediction) :
          Proper(prediction[k].probs) => LowestMax(prediction[k].probs, prediction[k].classIndex)
    /\ argmax(<<Frac(1, 5), Frac(1, 2), Frac(1, 2)>>) = 1

\* a model's block in which two classes tie for the maximum and the lower
\* one is shown as the winner
C8_Witness ==
    \E k \in 1..Len(modelsOutput) :
        LET b == modelsOutput[k] IN
        /\ Len(b.probs) = 3
        /\ b.probs[2] = b.probs[3]
        /\ ~Leq(b.probs[2], b.probs[1])
        /\ b.idx = 1

Served(order, doc) ==
    { k \in 1..Len(order) :
        /\ order[k] \in DOMAIN doc.models
        /\ doc.models[order[k]].type \in {"linear", "rf", "mlp"} }

\* C10: a predict click, direct or through a preset, that finds the bundle
\* unset shows the alert, raises nothing and leaves every output as it was;
\* one that finds it loaded shows no alert and renders: the multi-model page
\* one block per checked model it can serve, the single-model page its
\* prediction.
C10_LoadGuard ==
    [][ clicked' =>
          /\ (variant = "multi" /\ exportData = <<>>)
                => (alertMsg' = MultiAlert /\ uncaught' = "" /\ UNCHANGED outputVars)
          /\ (variant = "single" /\ model = <<>>)
                => (alertMsg' = SingleAlert /\ uncaught' = "" /\ UNCHANGED outputVars)
          /\ (variant = "multi" /\ exportData # <<>>)
                => /\ alertMsg' = ""
                   /\ uncaught' = ""
                        => /\ Len(modelsOutput') =
                                 Cardinality(Served(modelOrder(checks), exportData[1]))
                           /\ ~resultHidden'
                           /\ ~resultsMultiHidden'
          /\ (variant = "single" /\ model # <<>>)
                => (alertMsg' = "" /\ uncaught' = "" /\ prediction' # <<>> /\ ~resultHidden')
      ]_vars

\* a preset click has found the bundle unset while the load was still in
\* flight: the alert is up and nothing is shown
C10_Witness ==
    /\ clicked
    /\ lastEvent = "preset"
    /\ fetching
    /\ exportData = <<>>
    /\ alertMsg = MultiAlert
    /\ resultHidden

====
